---- MODULE Spec2Model ----
(***************************************************************************)
(* Model of scripts/generate-results.ts: the static suite results          *)
(* generator.  A suite of test cases is loaded, one asynchronous task per  *)
(* case calls the external NOPE API and scores the answer, the tasks run   *)
(* through runWithConcurrency, and the per-case results are folded into a  *)
(* report that is written to static/suites/<test_set_id>.json.             *)
(*                                                                         *)
(* JavaScript values are modelled as follows.                              *)
(*  - an object is a record; an optional property that is not set is a     *)
(*    field the record does not have (Has);                                *)
(*  - null and undefined are the records Null and Undefined;               *)
(*  - a number is an exact fraction [num, den] in lowest terms, and 0/0   *)
(*    is NaN (the rounding of doubles is not modelled);                    *)
(*  - an array is a sequence, 1-based here and 0-based in the source;      *)
(*  - a synchronous stretch of code between two awaits is one step.        *)
(***************************************************************************)
EXTENDS Integers, Sequences, FiniteSets, TLC

(***************************************************************************)
(* JavaScript values                                                       *)
(***************************************************************************)
Null == [js_null |-> TRUE]
Undefined == [js_undefined |-> TRUE]

Has(obj, field) == field \in DOMAIN obj

\* An object literal property whose value may be undefined: no field then.
Prop(field, obj, from) == IF Has(obj, from) THEN field :> obj[from] ELSE <<>>

RECURSIVE Gcd(_, _)
Gcd(a, b) == IF b = 0 THEN a ELSE Gcd(b, a % b)

NaN == [num |-> 0, den |-> 0]
Num(n, d) == IF d = 0 THEN NaN ELSE [num |-> n \div Gcd(n, d), den |-> d \div Gcd(n, d)]
IsNaN(x) == x.den = 0
Plus(x, y) == IF IsNaN(x) \/ IsNaN(y) THEN NaN
              ELSE Num(x.num * y.den + y.num * x.den, x.den * y.den)
Divide(x, y) == IF IsNaN(x) \/ IsNaN(y) THEN NaN
                ELSE Num(x.num * y.den, x.den * y.num)
Times(x, y) == IF IsNaN(x) \/ IsNaN(y) THEN NaN
               ELSE Num(x.num * y.num, x.den * y.den)
\* x >= y on numbers: false as soon as one side is NaN.
Geq(x, y) == ~IsNaN(x) /\ ~IsNaN(y) /\ x.num * y.den >= y.num * x.den

\* Array.prototype.includes / indexOf (0-based, -1 when absent).
Includes(arr, v) == \E k \in 1..Len(arr) : arr[k] = v
IndexOf(arr, v) ==
  IF Includes(arr, v)
  THEN (CHOOSE k \in 1..Len(arr) : arr[k] = v /\ \A j \in 1..(k - 1) : arr[j] # v) - 1
  ELSE 0 - 1

\* The outcome of a call or of a promise: a value, or a thrown error.
Returns(v) == [threw |-> FALSE, value |-> v]
Throws(m) == [threw |-> TRUE, message |-> m]

(***************************************************************************)
(* Types of the suite format (lines 37-39) and the severity scale          *)
(***************************************************************************)
Severity == {"none", "mild", "moderate", "high", "critical"}
Imminence == {"not_applicable", "chronic", "subacute", "urgent", "emergency"}
RiskDomain == {"self", "others", "dependent_at_risk", "victimisation"}

severityLevels == <<"none", "mild", "moderate", "high", "critical">>

\* if (x) on a string, a number or a missing property.
TruthyString(obj, field) == Has(obj, field) /\ obj[field] # ""
TruthyNumber(obj, field) == Has(obj, field) /\ ~IsNaN(obj[field]) /\ obj[field].num # 0
\* A numeric property read for a comparison: undefined compares as NaN, and
\* so does a string that is not the text of a number ([js_string |-> ...]).
NumberOf(obj, field) ==
  IF Has(obj, field) /\ Has(obj[field], "num") THEN obj[field] ELSE NaN

(***************************************************************************)
(* callNopeAPI (lines 177-205).  A response of the endpoint is             *)
(*   [net |-> "rejects", message]           fetch rejects                  *)
(*   [net |-> "responds", ok, status, text] and, when the body parses as   *)
(*                                          JSON, a field json             *)
(* The awaits of lines 190, 200 and 204 are taken by the steps of a lane   *)
(* below; this operator is the outcome of the whole call.                  *)
(***************************************************************************)
callNopeAPI(response) ==
  IF response.net = "rejects" THEN Throws(response.message)
  ELSE IF ~response.ok THEN Throws("API error (" \o response.status \o "): " \o response.text)
  ELSE IF ~Has(response, "json") THEN Throws("Unexpected token in JSON")
  ELSE Returns(response.json)

(***************************************************************************)
(* The try block of a task (lines 231-325)                                 *)
(***************************************************************************)
\* An acceptable list that is added to the baseline instead of replacing it.
acceptableSeveritiesWidening(testCase) ==
  IF Has(testCase, "acceptable_severities")
  THEN Append(testCase.acceptable_severities, testCase.expected_overall_severity)
  ELSE <<testCase.expected_overall_severity>>

acceptableSeverities(testCase) ==
  IF Has(testCase, "acceptable_severities") THEN testCase.acceptable_severities
  ELSE <<testCase.expected_overall_severity>>

acceptableImminence(testCase) ==
  IF Has(testCase, "acceptable_imminence") THEN testCase.acceptable_imminence
  ELSE <<testCase.expected_overall_imminence>>

checks(testCase, result) ==
  [overall_severity |->
     Includes(acceptableSeverities(testCase), result.global.overall_severity),
   overall_imminence |->
     Includes(acceptableImminence(testCase), result.global.overall_imminence),
   confidence |->
     Geq(NumberOf(result, "confidence"), NumberOf(testCase, "expected_min_confidence"))]

\* result.domains.find(d => d.domain === expectedDomain.domain): 0 when none.
FindDomain(domains, tag) ==
  IF \E k \in 1..Len(domains) : domains[k].domain = tag
  THEN CHOOSE k \in 1..Len(domains) :
         domains[k].domain = tag /\ \A j \in 1..(k - 1) : domains[j].domain # tag
  ELSE 0

\* A severity check that asks for the minimum exactly.
severityCheckExact(expectedDomain, actualDomain) ==
  IF TruthyString(expectedDomain, "min_severity")
  THEN (expectedDomain.domain \o "_severity") :>
         (IndexOf(severityLevels, actualDomain.severity)
            = IndexOf(severityLevels, expectedDomain.min_severity))
  ELSE <<>>

severityCheck(expectedDomain, actualDomain) ==
  IF TruthyString(expectedDomain, "min_severity")
  THEN (expectedDomain.domain \o "_severity") :>
         (IndexOf(severityLevels, actualDomain.severity)
            >= IndexOf(severityLevels, expectedDomain.min_severity))
  ELSE <<>>

confidenceCheck(expectedDomain, actualDomain) ==
  IF TruthyNumber(expectedDomain, "min_confidence")
  THEN (expectedDomain.domain \o "_confidence") :>
         Geq(NumberOf(actualDomain, "confidence"), expectedDomain.min_confidence)
  ELSE <<>>

\* One turn of the forEach of lines 244-257; a later write to a key wins.
domainCheck(expectedDomain, domains, acc) ==
  LET at == FindDomain(domains, expectedDomain.domain)
  IN IF at = 0 THEN acc
     ELSE confidenceCheck(expectedDomain, domains[at])
            @@ severityCheck(expectedDomain, domains[at]) @@ acc

RECURSIVE domainChecksFrom(_, _, _, _)
domainChecksFrom(expected, k, domains, acc) ==
  IF k > Len(expected) THEN acc
  ELSE domainChecksFrom(expected, k + 1, domains, domainCheck(expected[k], domains, acc))

domainChecks(testCase, result) ==
  IF Has(testCase, "expected_domains")
  THEN domainChecksFrom(testCase.expected_domains, 1, result.domains, <<>>)
  ELSE <<>>

\* result.legal_flags?.<flag>?.<field> === expected
FlagIs(result, flag, field, expected) ==
  /\ Has(result, "legal_flags")
  /\ Has(result.legal_flags, flag)
  /\ Has(result.legal_flags[flag], field)
  /\ result.legal_flags[flag][field] = expected

legalFlagCheck(flags, result, flag, field) ==
  IF Has(flags, flag) THEN flag :> FlagIs(result, flag, field, flags[flag]) ELSE <<>>

legalFlagChecks(testCase, result) ==
  IF Has(testCase, "expected_legal_flags")
  THEN legalFlagCheck(testCase.expected_legal_flags, result, "duty_to_warn", "present")
         @@ legalFlagCheck(testCase.expected_legal_flags, result, "mash_rating", "level")
         @@ legalFlagCheck(testCase.expected_legal_flags, result, "dash_rating", "level")
  ELSE <<>>

\* A score over the baseline and the domain checks only.
allChecksWithoutFlags(testCase, result) ==
  domainChecks(testCase, result) @@ checks(testCase, result)

\* { ...checks, ...domainChecks, ...legalFlagChecks }: the later spread wins.
allChecks(testCase, result) ==
  legalFlagChecks(testCase, result) @@ domainChecks(testCase, result) @@ checks(testCase, result)

\* Object.values(allChecks).some(v => v)
allPassedSome(all) == \E key \in DOMAIN all : all[key]

allPassed(all) == \A key \in DOMAIN all : all[key]
totalChecks(all) == Cardinality(DOMAIN all)
passedChecks(all) == Cardinality({key \in DOMAIN all : all[key]})
score(all) == Times(Divide(Num(passedChecks(all), 1), Num(totalChecks(all), 1)), Num(100, 1))

\* The object literal of lines 287-325.
expectedOf(testCase) ==
  Prop("overall_severity", testCase, "expected_overall_severity")
    @@ Prop("acceptable_severities", testCase, "acceptable_severities")
    @@ Prop("overall_imminence", testCase, "expected_overall_imminence")
    @@ Prop("acceptable_imminence", testCase, "acceptable_imminence")
    @@ Prop("min_confidence", testCase, "expected_min_confidence")
    @@ Prop("rationale", testCase, "rationale")
    @@ Prop("domains", testCase, "expected_domains")
    @@ Prop("legal_flags", testCase, "expected_legal_flags")

actualDomain(d) ==
  Prop("domain", d, "domain") @@ Prop("severity", d, "severity")
    @@ Prop("imminence", d, "imminence") @@ Prop("confidence", d, "confidence")
    @@ Prop("risk_features", d, "risk_features")
    @@ Prop("protective_factors", d, "protective_factors")

\* result.domains.map(...)
actualDomains(domains) == [k \in 1..Len(domains) |-> actualDomain(domains[k])]

actualOf(result) ==
  Prop("overall_severity", result.global, "overall_severity")
    @@ Prop("overall_imminence", result.global, "overall_imminence")
    @@ Prop("confidence", result, "confidence")
    @@ ("domains" :> actualDomains(result.domains))
    @@ Prop("legal_flags", result, "legal_flags")
    @@ Prop("primary_concerns", result.global, "primary_concerns")

reportedChecks(testCase, result) ==
  LET base == checks(testCase, result)
      dom == domainChecks(testCase, result)
      legal == legalFlagChecks(testCase, result)
  IN [overall_severity |-> base.overall_severity,
      overall_imminence |-> base.overall_imminence,
      confidence |-> base.confidence]
       @@ (IF Cardinality(DOMAIN dom) > 0 THEN "domains" :> dom ELSE <<>>)
       @@ (IF Cardinality(DOMAIN legal) > 0 THEN "legal_flags" :> legal ELSE <<>>)

successResult(testCase, result) ==
  Prop("case_id", testCase, "case_id")
    @@ Prop("description", testCase, "description")
    @@ Prop("input", testCase, "conversation")
    @@ [expected |-> expectedOf(testCase),
        actual |-> actualOf(result),
        passed |-> allPassed(allChecks(testCase, result)),
        checks |-> reportedChecks(testCase, result),
        score |-> score(allChecks(testCase, result))]

\* A try block that reads a missing domains list as an empty one.
tryBlockLenient(testCase, result) ==
  IF result = Null \/ ~Has(result, "global")
    THEN Throws("Cannot read properties of undefined (reading 'overall_severity')")
  ELSE Returns(successResult(testCase, result @@ [domains |-> <<>>]))

\* Reading a property of undefined or null inside the try block throws.
tryBlock(testCase, result) ==
  IF result = Null
    THEN Throws("Cannot read properties of null (reading 'global')")
  ELSE IF ~Has(result, "global")
    THEN Throws("Cannot read properties of undefined (reading 'overall_severity')")
  ELSE IF ~Has(result, "domains")
    THEN Throws("Cannot read properties of undefined (reading 'map')")
  ELSE Returns(successResult(testCase, result))

(***************************************************************************)
(* The catch block of a task (lines 327-355)                               *)
(***************************************************************************)
errorResult(testCase, message) ==
  Prop("case_id", testCase, "case_id")
    @@ Prop("description", testCase, "description")
    @@ Prop("input", testCase, "conversation")
    @@ [expected |->
          Prop("overall_severity", testCase, "expected_overall_severity")
            @@ Prop("overall_imminence", testCase, "expected_overall_imminence")
            @@ Prop("min_confidence", testCase, "expected_min_confidence"),
        actual |-> [overall_severity |-> "none",
                    overall_imminence |-> "not_applicable",
                    confidence |-> Num(0, 1),
                    domains |-> <<>>],
        passed |-> FALSE,
        checks |-> [overall_severity |-> FALSE,
                    overall_imminence |-> FALSE,
                    confidence |-> FALSE],
        score |-> Num(0, 1),
        error |-> message]

(***************************************************************************)
(* One task of lines 224-356: the promise it settles to, given the         *)
(* response the endpoint gives to its call.  A null entry of suite.cases   *)
(* throws at line 225, before the try block and before any call.           *)
(***************************************************************************)
\* A task without its try statement.
taskWithoutCatch(testCase, response) ==
  IF testCase = Null
    THEN Throws("Cannot read properties of null (reading 'case_id')")
  ELSE LET called == callNopeAPI(response)
       IN IF called.threw THEN called ELSE tryBlock(testCase, called.value)

\* A task whose try statement covers the call only.
taskCatchingCallOnly(testCase, response) ==
  IF testCase = Null
    THEN Throws("Cannot read properties of null (reading 'case_id')")
  ELSE LET called == callNopeAPI(response)
       IN IF called.threw THEN Returns(errorResult(testCase, called.message))
          ELSE tryBlock(testCase, called.value)

task(testCase, response) ==
  IF testCase = Null
    THEN Throws("Cannot read properties of null (reading 'case_id')")
  ELSE LET called == callNopeAPI(response)
       IN IF called.threw THEN Returns(errorResult(testCase, called.message))
          ELSE LET tried == tryBlock(testCase, called.value)
               IN IF tried.threw THEN Returns(errorResult(testCase, tried.message))
                  ELSE tried

(***************************************************************************)
(* runWithConcurrency (lines 143-172)                                      *)
(*                                                                         *)
(* A lane is one chain of runNext calls.  It is                            *)
(*   [pc |-> "call", currentIndex]    its task awaits callNopeAPI (line    *)
(*                                    229), which awaits fetch and then    *)
(*                                    the body (lines 190, 200, 204)       *)
(*   [pc |-> "settled", currentIndex, settled]                             *)
(*                                    its task has settled and the lane    *)
(*                                    has not resumed from line 157 yet    *)
(*   [pc |-> "done"]                  runNext returned at line 151         *)
(***************************************************************************)
Hole == [js_empty_slot |-> TRUE]

\* A runner that pushes each value as its task completes.
storeResultPushed(array, currentIndex, value) == Append(array, value)

\* results[currentIndex] = value on a JavaScript array (0-based index).
storeResult(array, currentIndex, value) ==
  [k \in 1..(IF currentIndex + 1 > Len(array) THEN currentIndex + 1 ELSE Len(array)) |->
     IF k = currentIndex + 1 THEN value
     ELSE IF k <= Len(array) THEN array[k] ELSE Hole]

\* Lines 156-161: the value a settled task leaves in its slot.
slotValue(settled) == IF settled.threw THEN Undefined ELSE settled.value

\* Lines 153-157: the task is called; it runs up to its first await.
startTask(currentIndex, cases) ==
  IF cases[currentIndex + 1] = Null
  THEN [pc |-> "settled", currentIndex |-> currentIndex,
        settled |-> task(Null, Undefined)]
  ELSE [pc |-> "call", currentIndex |-> currentIndex]

\* A runNext that reads the cursor and does not advance it.
runNextStale(cursor, cases) ==
  IF cursor >= Len(cases) THEN [lane |-> [pc |-> "done"], index |-> cursor]
  ELSE [lane |-> startTask(cursor, cases), index |-> cursor]

\* Lines 151-154: the lane it becomes and the cursor it leaves.
runNext(cursor, cases) ==
  IF cursor >= Len(cases) THEN [lane |-> [pc |-> "done"], index |-> cursor]
  ELSE [lane |-> startTask(cursor, cases), index |-> cursor + 1]

\* A runner in which a failed task ends its lane.
afterTaskStopping(settled, cursor, cases) ==
  IF settled.threw THEN [lane |-> [pc |-> "done"], index |-> cursor]
  ELSE runNext(cursor, cases)

\* A runner whose lanes run one task each.
afterTaskOnce(settled, cursor, cases) == [lane |-> [pc |-> "done"], index |-> cursor]

\* Line 163: after the try statement the lane goes on, whatever the task did.
afterTask(settled, cursor, cases) == runNext(cursor, cases)

\* A runner that starts one worker per task.
workerCountUnbounded(limit, length) == length

\* A runner that starts no worker.
workerCountNone(limit, length) == 0

workerCount(limit, length) == IF limit < length THEN limit ELSE length

\* Lines 166-168: the workers are started one after the other.
RECURSIVE workers(_, _, _, _)
workers(count, cursor, cases, started) ==
  IF Len(started) >= count THEN [lanes |-> started, index |-> cursor]
  ELSE LET next == runNext(cursor, cases)
       IN workers(count, next.index, cases, Append(started, next.lane))

(***************************************************************************)
(* The report (lines 361-383) and its file (lines 385-393)                 *)
(***************************************************************************)
apiUrl == "http://localhost:8788"

\* result.passed of line 363 throws on an undefined slot.
countThrows(taskResults) == \E k \in 1..Len(taskResults) : taskResults[k] = Undefined

\* A count loop that puts each result in front (unshift).
RECURSIVE collectUnshift(_, _)
collectUnshift(taskResults, k) ==
  IF k > Len(taskResults) THEN <<>>
  ELSE IF taskResults[k] = Hole THEN collectUnshift(taskResults, k + 1)
  ELSE collectUnshift(taskResults, k + 1) \o <<taskResults[k]>>

\* forEach skips the empty slots of an array.
RECURSIVE collect(_, _)
collect(taskResults, k) ==
  IF k > Len(taskResults) THEN <<>>
  ELSE IF taskResults[k] = Hole THEN collect(taskResults, k + 1)
  ELSE <<taskResults[k]>> \o collect(taskResults, k + 1)

\* A count of the cases whose call did not fail.
passedCountNoError(collected) ==
  Cardinality({k \in 1..Len(collected) : ~Has(collected[k], "error")})

passedCount(collected) == Cardinality({k \in 1..Len(collected) : collected[k].passed})
failedCount(collected) == Cardinality({k \in 1..Len(collected) : ~collected[k].passed})

RECURSIVE sumScores(_, _, _)
sumScores(collected, k, sum) ==
  IF k > Len(collected) THEN sum
  ELSE sumScores(collected, k + 1, Plus(sum, collected[k].score))

\* An overall score that is the share of the cases that passed.
overallScorePassRatio(collected) ==
  Times(Divide(Num(passedCount(collected), 1), Num(Len(collected), 1)), Num(100, 1))

overallScore(collected) == Divide(sumScores(collected, 1, Num(0, 1)), Num(Len(collected), 1))

staticResults(suite, taskResults, time) ==
  LET collected == collect(taskResults, 1)
  IN Prop("suite_id", suite, "test_set_id")
       @@ Prop("suite_version", suite, "version")
       @@ Prop("suite_description", suite, "description")
       @@ [generated_at |-> time,
           api_endpoint |-> apiUrl,
           total_cases |-> Len(suite.cases),
           passed_cases |-> passedCount(collected),
           failed_cases |-> failedCount(collected),
           overall_score |-> overallScore(collected),
           cases |-> collected]

\* JSON.stringify writes NaN as null (properties that are undefined are
\* already absent from the records).
stringify(report) ==
  IF IsNaN(report.overall_score) THEN [report EXCEPT !.overall_score = Null] ELSE report

\* A report written to one fixed file, whatever the suite.
outputPathFixed(suite) == "results.json"

outputPath(suite) ==
  IF Has(suite, "test_set_id") THEN suite.test_set_id \o ".json" ELSE "undefined.json"

(***************************************************************************)
(* Bounds and the inputs the model draws from                              *)
(***************************************************************************)
MaxCases == 3          \* cases of a suite, at most
MaxConcurrency == 2    \* limits tried besides the harness's own
MaxRuns == 2           \* invocations of the script

HarnessConcurrency == 10

ConvA == <<[role |-> "user", content |-> "a"]>>
ConvB == <<[role |-> "user", content |-> "b"]>>

CaseA == [case_id |-> "case-a", description |-> "baseline only",
          conversation |-> ConvA,
          expected_overall_severity |-> "high",
          expected_overall_imminence |-> "urgent",
          expected_min_confidence |-> Num(6, 10)]
CaseB == [case_id |-> "case-b", description |-> "widened, with a legal flag",
          conversation |-> ConvB,
          expected_overall_severity |-> "moderate",
          acceptable_severities |-> <<"moderate", "high">>,
          expected_overall_imminence |-> "subacute",
          acceptable_imminence |-> <<"subacute", "urgent">>,
          expected_min_confidence |-> Num(5, 10),
          expected_domains |-> <<[domain |-> "others", min_severity |-> "high"]>>,
          expected_legal_flags |-> [duty_to_warn |-> TRUE]]
CaseC == [case_id |-> "case-c", description |-> "expects no risk",
          conversation |-> ConvA,
          expected_overall_severity |-> "none",
          expected_overall_imminence |-> "not_applicable",
          expected_min_confidence |-> Num(9, 10)]
CasePool == {CaseA, CaseB, CaseC, Null}

NetFail == [net |-> "rejects", message |-> "fetch failed"]
Http500 == [net |-> "responds", ok |-> FALSE, status |-> "500",
            text |-> "Internal Server Error"]
OkNoGlobal == [net |-> "responds", ok |-> TRUE, status |-> "200",
               json |-> [confidence |-> Num(8, 10), domains |-> <<>>]]
OkNoDomains == [net |-> "responds", ok |-> TRUE, status |-> "200",
                json |-> [global |-> [overall_severity |-> "high",
                                      overall_imminence |-> "urgent"],
                          confidence |-> Num(8, 10)]]
OkHigh == [net |-> "responds", ok |-> TRUE, status |-> "200",
           json |-> [global |-> [overall_severity |-> "high",
                                 overall_imminence |-> "urgent",
                                 primary_concerns |-> <<"threat">>],
                     confidence |-> Num(8, 10),
                     domains |-> <<[domain |-> "others", severity |-> "critical",
                                    imminence |-> "urgent", confidence |-> Num(7, 10)]>>,
                     legal_flags |-> [duty_to_warn |-> [present |-> TRUE]]]]
OkLow == [net |-> "responds", ok |-> TRUE, status |-> "200",
          json |-> [global |-> [overall_severity |-> "moderate",
                                overall_imminence |-> "subacute"],
                    confidence |-> Num(4, 10),
                    domains |-> <<>>]]
Responses == {NetFail, Http500, OkNoGlobal, OkNoDomains, OkHigh, OkLow}

suiteOf(cases) == [test_set_id |-> "core-transparency", version |-> "1.0.0",
                   description |-> "core cases", cases |-> cases]
\* The case lists of the suites: case identifiers are unique within a suite.
CaseLists ==
  {cases \in UNION {[1..n -> CasePool] : n \in 0..MaxCases} :
     \A j, k \in 1..Len(cases) : (j # k /\ cases[j] # Null) => cases[j] # cases[k]}
\* A suite file: one that parses to a suite, one that parses to an object
\* without cases, one that is not JSON.
SuiteFiles == {[json |-> suiteOf(cases)] : cases \in CaseLists}
                \cup {[json |-> [test_set_id |-> "no-cases", version |-> "1.0.0"]],
                      [text |-> "{"]}

\* The conversations the cases of a suite file carry.
conversationsOf(file) ==
  IF Has(file, "json") /\ Has(file.json, "cases")
  THEN {file.json.cases[k].conversation :
          k \in {j \in 1..Len(file.json.cases) : file.json.cases[j] # Null}}
  ELSE {}

\* The suite path of the invocation names one of these files, or no file.
Directories == {<<>>} \cup {<<file>> : file \in SuiteFiles}

(***************************************************************************)
(* State                                                                   *)
(***************************************************************************)
VARIABLES
  args,            \* [all |-> TRUE] for --all, [all |-> FALSE] for one suite path
  fixtures,        \* the suite files: the listing of fixtures/ with --all,
                   \* else the file at the suite path, if there is one
  api,             \* what the endpoint answers to each conversation it is sent
  maxConcurrency,  \* the limit runWithConcurrency is given
  run,             \* invocations of the script so far
  pc,              \* main: "idle", "running", "returned", "exited"
  exitCode,        \* of the last invocation that ended
  error,           \* what that invocation printed at line 438 or 449, or ""
  current,         \* the fixture generateStaticResults is working on
  index,           \* the cursor of runWithConcurrency (line 148)
  results,         \* the results array of runWithConcurrency (line 147)
  stored,          \* history: the indices stored so far, in the order stored
  lanes,           \* the workers (line 166)
  now,             \* the clock read at line 376
  static,          \* static/suites: output path -> file content
  written          \* history: every writeFileSync so far, in order, and whether
                   \* the results it wrote had been stored in index order

vars == <<args, fixtures, api, maxConcurrency, run, pc, exitCode, error, current,
          index, results, stored, lanes, now, static, written>>

input == <<args, fixtures, api, maxConcurrency>>
runner == <<index, results, stored, lanes>>
exit == <<exitCode, error>>
output == <<now, static, written>>

suite == fixtures[current].json
responseTo(testCase) == api[testCase.conversation]

Init ==
  /\ args = [all |-> FALSE]
  /\ fixtures \in Directories
  /\ api \in [UNION {conversationsOf(fixtures[k]) : k \in 1..Len(fixtures)} -> Responses]
  /\ maxConcurrency \in (1..MaxConcurrency) \cup {HarnessConcurrency}
  /\ run = 0
  /\ pc = "idle"
  /\ exitCode = 0
  /\ error = ""
  /\ current = 0
  /\ index = 0
  /\ results = <<>>
  /\ stored = <<>>
  /\ lanes = <<>>
  /\ now = 0
  /\ static = <<>>
  /\ written = <<>>

(***************************************************************************)
(* main and generateStaticResults                                          *)
(***************************************************************************)
\* An uncaught error that is printed and leaves the exit status at 0.
FatalPrinted(message) ==
  /\ pc' = "exited"
  /\ exitCode' = 0
  /\ error' = message

\* An uncaught error: main().catch of lines 448-451.
Fatal(message) ==
  /\ pc' = "exited"
  /\ exitCode' = 1
  /\ error' = message

\* Lines 207-359, up to the await of line 359: the suite is read, the tasks
\* are built and runWithConcurrency starts its workers.  JSON.parse throws
\* on a file that is not JSON, and line 216 on a suite without cases.
generateStaticResults(fixture) ==
  LET file == fixtures[fixture]
  IN /\ current' = fixture
     /\ IF ~Has(file, "json") \/ ~Has(file.json, "cases")
        THEN /\ Fatal(IF Has(file, "json")
                       THEN "TypeError: Cannot read properties of undefined (reading 'length')"
                       ELSE "SyntaxError: Unexpected end of JSON input")
             /\ UNCHANGED runner
        ELSE LET cases == file.json.cases
                 started == workers(workerCount(maxConcurrency, Len(cases)),
                                    0, cases, <<>>)
             IN /\ pc' = "running"
                /\ UNCHANGED exit
                /\ index' = started.index
                /\ results' = <<>>
                /\ stored' = <<>>
                /\ lanes' = started.lanes

\* Lines 409-446, up to the first await: the script is invoked.
Main ==
  /\ pc \in {"idle", "exited"}
  /\ run < MaxRuns
  /\ run' = run + 1
  /\ IF Len(fixtures) = 0
     THEN \* --all over an empty directory ends at line 431; a suite path
          \* that does not exist ends at line 442
          /\ pc' = "exited"
          /\ exitCode' = IF args.all THEN 0 ELSE 1
          /\ error' = IF args.all THEN "" ELSE "Test suite not found"
          /\ UNCHANGED <<current, runner>>
     ELSE generateStaticResults(1)
  /\ UNCHANGED <<input, output>>

\* callNopeAPI settles (line 229) and the task runs to its end: the try
\* block (lines 231-325), or the catch block (lines 327-355) when the call
\* or the try block threw.  The awaits inside callNopeAPI touch no state of
\* the script, so the call is one step.
CallSettles(lane) ==
  /\ pc = "running"
  /\ lanes[lane].pc = "call"
  /\ LET currentIndex == lanes[lane].currentIndex
         testCase == suite.cases[currentIndex + 1]
     IN lanes' = [lanes EXCEPT ![lane] =
                    [pc |-> "settled", currentIndex |-> currentIndex,
                     settled |-> task(testCase, responseTo(testCase))]]
  /\ UNCHANGED <<input, output, run, pc, exit, current, index, results, stored>>

\* The lane resumes from the await of line 157: it stores its slot
\* (lines 158, 160) and calls runNext again (line 163).
Resume(lane) ==
  /\ pc = "running"
  /\ lanes[lane].pc = "settled"
  /\ LET next == afterTask(lanes[lane].settled, index, suite.cases)
     IN /\ results' = storeResult(results, lanes[lane].currentIndex,
                                  slotValue(lanes[lane].settled))
        /\ stored' = Append(stored, lanes[lane].currentIndex)
        /\ index' = next.index
        /\ lanes' = [lanes EXCEPT ![lane] = next.lane]
  /\ UNCHANGED <<input, output, run, pc, exit, current>>

\* History: the stores happened in the order of the indices.
inIndexOrder(order) == \A k \in 1..Len(order) : order[k] = k - 1

\* Promise.all of line 170 has resolved: lines 361-405.  The count loop
\* throws on an undefined slot; writeFileSync throws when the destination
\* cannot be written.
Aggregate ==
  /\ pc = "running"
  /\ \A lane \in 1..Len(lanes) : lanes[lane].pc = "done"
  /\ \E writable \in BOOLEAN :
       IF countThrows(results)
       THEN /\ Fatal("TypeError: Cannot read properties of undefined (reading 'passed')")
            /\ UNCHANGED output
       ELSE /\ now' = now + 1
            /\ IF writable
               THEN LET content == stringify(staticResults(suite, results, now))
                    IN /\ static' = (outputPath(suite) :> content) @@ static
                       /\ written' = Append(written,
                                            [run |-> run, fixture |-> current,
                                             path |-> outputPath(suite),
                                             content |-> content,
                                             inOrder |-> inIndexOrder(stored)])
                       /\ pc' = "returned"
                       /\ UNCHANGED exit
               ELSE /\ Fatal("Error: EACCES: permission denied")
                    /\ UNCHANGED <<static, written>>
  /\ UNCHANGED <<input, run, current, runner>>

\* A loop over the fixtures that does not await generateStaticResults: the
\* next suite is launched while the current one is still running.
MainResumesNotAwaiting ==
  /\ pc \in {"running", "returned"}
  /\ IF args.all /\ current < Len(fixtures)
     THEN generateStaticResults(current + 1)
     ELSE /\ pc = "returned"
          /\ pc' = "exited"
          /\ exitCode' = 0
          /\ error' = ""
          /\ UNCHANGED <<current, runner>>
  /\ UNCHANGED <<input, output, run>>

\* main resumes from the await of line 426 or 445: the next fixture of
\* --all, or the end of the script.
MainResumes ==
  /\ pc = "returned"
  /\ IF args.all /\ current < Len(fixtures)
     THEN generateStaticResults(current + 1)
     ELSE /\ pc' = "exited"
          /\ exitCode' = 0
          /\ error' = ""
          /\ UNCHANGED <<current, runner>>
  /\ UNCHANGED <<input, output, run>>

Next ==
  \/ Main
  \/ \E lane \in 1..Len(lanes) : CallSettles(lane)
  \/ \E lane \in 1..Len(lanes) : Resume(lane)
  \/ Aggregate
  \/ MainResumes

Spec == Init /\ [][Next]_vars

\* Some lane awaits its call of the classifier: CallSettles is enabled.
callPending ==
  /\ pc = "running"
  /\ \E lane \in 1..Len(lanes) : lanes[lane].pc = "call"

\* Every call of the classifier settles, which is the hypothesis under which
\* termination is stated: weak fairness of CallSettles, with ENABLED written
\* out as callPending (a CallSettles step always changes lanes).
CallsSettle ==
  []<>(~callPending) \/ []<><<\E lane \in 1..Len(lanes) : CallSettles(lane)>>_vars

\* The event loop runs every continuation that is ready: a lane whose task
\* has settled resumes (line 157), generateStaticResults resumes once
\* Promise.all has resolved (line 359), main resumes once
\* generateStaticResults has returned (lines 426, 445).
Fairness ==
  /\ CallsSettle
  /\ WF_vars(\E lane \in 1..Len(lanes) : Resume(lane))
  /\ WF_vars(Aggregate)
  /\ WF_vars(MainResumes)

\* Termination does not depend on what a payload says: the calls of a run
\* either reject or resolve.
InitFair ==
  /\ Init
  /\ \A conversation \in DOMAIN api : api[conversation] \in {NetFail, OkHigh}

FairSpec == InitFair /\ [][Next]_vars /\ Fairness

(***************************************************************************)
(* --all (lines 417-432): every .json file of fixtures/ in turn.  The      *)
(* directory holds suites that run, and files the loader is given as they  *)
(* are: not JSON, without a case list, with an empty case list, with a     *)
(* case whose confidence threshold is a string, with a null entry.         *)
(***************************************************************************)
MaxFixtures == 2       \* files of fixtures/, at most

SuiteEdge == [test_set_id |-> "edge-cases", version |-> "0.2.0",
              description |-> "edge cases", cases |-> <<CaseC>>]
SuiteEmpty == [test_set_id |-> "empty", version |-> "0.1.0",
               description |-> "no case yet", cases |-> <<>>]
CaseNonNumeric == [case_id |-> "case-n", description |-> "threshold given as text",
                   conversation |-> ConvB,
                   expected_overall_severity |-> "moderate",
                   expected_overall_imminence |-> "subacute",
                   expected_min_confidence |-> [js_string |-> "high"]]
SuiteNonNumeric == [test_set_id |-> "non-numeric", version |-> "0.1.0",
                    description |-> "a threshold that is not a number",
                    cases |-> <<CaseNonNumeric>>]
SuiteNullEntry == [test_set_id |-> "null-entry", version |-> "0.1.0",
                   description |-> "an entry that is not a case",
                   cases |-> <<Null>>]

FileCore == [json |-> suiteOf(<<CaseA, CaseB>>)]
FileEdge == [json |-> SuiteEdge]
FileBroken == [text |-> "{"]
FileNoCases == [json |-> [test_set_id |-> "no-cases", version |-> "1.0.0"]]
FileEmpty == [json |-> SuiteEmpty]
FileNonNumeric == [json |-> SuiteNonNumeric]
FileNullEntry == [json |-> SuiteNullEntry]
BatchFiles == {FileCore, FileEdge, FileBroken, FileNoCases, FileEmpty,
               FileNonNumeric, FileNullEntry}

\* readdirSync: the files of the directory, in the order of their names.
BatchDirectories == UNION {[1..n -> BatchFiles] : n \in 0..MaxFixtures}

BatchResponses == {Http500, OkHigh, OkLow}

InitAll ==
  /\ args = [all |-> TRUE]
  /\ fixtures \in BatchDirectories
  /\ api \in [UNION {conversationsOf(fixtures[k]) : k \in 1..Len(fixtures)} -> BatchResponses]
  /\ maxConcurrency = HarnessConcurrency
  /\ run = 0
  /\ pc = "idle"
  /\ exitCode = 0
  /\ error = ""
  /\ current = 0
  /\ index = 0
  /\ results = <<>>
  /\ stored = <<>>
  /\ lanes = <<>>
  /\ now = 0
  /\ static = <<>>
  /\ written = <<>>

SpecAll == InitAll /\ [][Next]_vars

(***************************************************************************)
(* One suite of one case, over the shapes a case and a payload can take:   *)
(* the inputs of the scoring of lines 231-278.                             *)
(***************************************************************************)
BaseCase == [case_id |-> "case-s", description |-> "scored",
             conversation |-> ConvA,
             expected_overall_severity |-> "moderate",
             expected_overall_imminence |-> "subacute",
             expected_min_confidence |-> Num(6, 10)]

\* expected_overall_severity and acceptable_severities (lines 46-47): no list,
\* a list with the baseline, a list without it, an empty list.
SeverityAspects ==
  {[expected_overall_severity |-> baseline] : baseline \in {"moderate", "high"}}
    \cup {[expected_overall_severity |-> baseline, acceptable_severities |-> list] :
            baseline \in {"moderate", "high"},
            list \in {<<"moderate", "high">>, <<"high", "critical">>, <<>>}}

\* expected_overall_imminence and acceptable_imminence (lines 48-49).
ImminenceAspects ==
  {<<>>,
   [acceptable_imminence |-> <<"subacute", "urgent">>],
   [acceptable_imminence |-> <<"urgent", "emergency">>]}

\* expected_min_confidence (line 50).
ConfidenceAspects ==
  {<<>>, [expected_min_confidence |-> Num(0, 1)]}

\* expected_domains (lines 52-57).
DomainAspects ==
  {<<>>,
   [expected_domains |-> <<>>],
   [expected_domains |-> <<[domain |-> "others"]>>],
   [expected_domains |-> <<[domain |-> "others", min_severity |-> "none"]>>],
   [expected_domains |-> <<[domain |-> "others", min_severity |-> "high"]>>],
   [expected_domains |-> <<[domain |-> "others", min_severity |-> "high",
                            min_confidence |-> Num(5, 10)]>>],
   [expected_domains |-> <<[domain |-> "others", min_confidence |-> Num(0, 1)]>>],
   [expected_domains |-> <<[domain |-> "others", min_imminence |-> "urgent"]>>],
   [expected_domains |-> <<[domain |-> "self", min_severity |-> "mild"],
                           [domain |-> "others", min_severity |-> "critical"]>>]}

\* expected_legal_flags (lines 58-65).
FlagAspects ==
  {<<>>,
   [expected_legal_flags |-> <<>>],
   [expected_legal_flags |-> [duty_to_warn |-> TRUE]],
   [expected_legal_flags |-> [duty_to_warn |-> FALSE]],
   [expected_legal_flags |-> [mash_rating |-> "high"]],
   [expected_legal_flags |-> [dash_rating |-> "medium"]],
   [expected_legal_flags |-> [child_safeguarding_urgent |-> TRUE]],
   [expected_legal_flags |-> [vulnerable_adult_safeguarding |-> FALSE]],
   [expected_legal_flags |-> [animal_cruelty |-> TRUE]],
   [expected_legal_flags |-> [duty_to_warn |-> TRUE, mash_rating |-> "high",
                              dash_rating |-> "low"]]}

\* Cases that differ in what they expect overall, and cases that differ in
\* their domains and legal flags.
OverallCases ==
  {sev @@ imm @@ conf @@ BaseCase :
     sev \in SeverityAspects, imm \in ImminenceAspects, conf \in ConfidenceAspects}
DetailCases ==
  {dom @@ flag @@ BaseCase : dom \in DomainAspects, flag \in FlagAspects}

\* Payloads of the endpoint (line 204): what it says overall ...
OverallPayloads ==
  {[global |-> [overall_severity |-> sev, overall_imminence |-> imm],
    confidence |-> conf, domains |-> <<>>] :
     sev \in Severity, imm \in {"subacute", "urgent", "emergency"},
     conf \in {Num(4, 10), Num(8, 10)}}

\* ... and its domains and legal flags.
PayloadDomains ==
  {<<>>,
   <<[domain |-> "others", severity |-> "moderate", imminence |-> "chronic",
      confidence |-> Num(7, 10)]>>,
   <<[domain |-> "others", severity |-> "high", imminence |-> "urgent",
      confidence |-> Num(3, 10)]>>,
   <<[domain |-> "self", severity |-> "none", imminence |-> "not_applicable",
      confidence |-> Num(9, 10)],
     [domain |-> "others", severity |-> "critical", imminence |-> "emergency",
      confidence |-> Num(7, 10)]>>}
PayloadFlags ==
  {<<>>,
   [legal_flags |-> <<>>],
   [legal_flags |-> [duty_to_warn |-> [present |-> TRUE],
                     child_safeguarding_urgent |-> [present |-> FALSE],
                     vulnerable_adult_safeguarding |-> [present |-> FALSE],
                     animal_cruelty |-> [present |-> FALSE],
                     mash_rating |-> [level |-> "high"],
                     dash_rating |-> [level |-> "medium"]]],
   [legal_flags |-> [duty_to_warn |-> [present |-> FALSE],
                     mash_rating |-> [level |-> "low"]]]}
DetailPayloads ==
  {flags @@ [global |-> [overall_severity |-> "moderate", overall_imminence |-> "subacute"],
             confidence |-> conf, domains |-> domains] :
     flags \in PayloadFlags, domains \in PayloadDomains,
     conf \in {Num(4, 10), Num(8, 10)}}

ScoringInputs == (OverallCases \X OverallPayloads) \cup (DetailCases \X DetailPayloads)

scoringSuite(testCase) == [test_set_id |-> "scoring", version |-> "1.0.0",
                           description |-> "one case", cases |-> <<testCase>>]
okResponse(payload) == [net |-> "responds", ok |-> TRUE, status |-> "200", json |-> payload]

InitScoring ==
  /\ args = [all |-> FALSE]
  /\ \E scoring \in ScoringInputs :
       /\ fixtures = <<[json |-> scoringSuite(scoring[1])]>>
       /\ api = (scoring[1].conversation :> okResponse(scoring[2]))
  /\ maxConcurrency = HarnessConcurrency
  /\ run = 0
  /\ pc = "idle"
  /\ exitCode = 0
  /\ error = ""
  /\ current = 0
  /\ index = 0
  /\ results = <<>>
  /\ stored = <<>>
  /\ lanes = <<>>
  /\ now = 0
  /\ static = <<>>
  /\ written = <<>>

SpecScoring == InitScoring /\ [][Next]_vars

(***************************************************************************)
(* Properties                                                              *)
(***************************************************************************)
\* Promise.all of line 170 has resolved and results is what the runner returns.
runnerCompleted ==
  /\ pc = "running"
  /\ \A lane \in 1..Len(lanes) : lanes[lane].pc = "done"

\* What the task of a case produces: its value, or nothing when it throws.
producedBy(testCase) ==
  IF testCase = Null THEN Undefined ELSE task(testCase, responseTo(testCase)).value

inFlight == Cardinality({lane \in 1..Len(lanes) : lanes[lane].pc = "call"})

\* C1 (index fidelity): once runWithConcurrency has completed, its result has
\* one slot per task and slot i holds what task i produced (undefined for a
\* task that failed), whatever the limit and the order of completion.
C1_IndexFidelity ==
  runnerCompleted =>
    /\ Len(results) = Len(suite.cases)
    /\ \A k \in 1..Len(suite.cases) : results[k] = producedBy(suite.cases[k])

\* Three different tasks, one of them failing, under a limit of 2, stored in
\* an order that is not the order of the tasks.
C1_Witness ==
  /\ runnerCompleted
  /\ suite.cases = <<CaseA, Null, CaseB>>
  /\ maxConcurrency = 2
  /\ stored = <<1, 0, 2>>
  /\ api[ConvA] = OkHigh /\ api[ConvB] = Http500

\* C2 (concurrency ceiling): in every state the tasks started and not yet
\* settled are at most the limit, and at most the number of tasks.
C2_ConcurrencyCeiling ==
  pc = "running" =>
    /\ inFlight <= maxConcurrency
    /\ inFlight <= Len(suite.cases)

\* The limit is reached again after a lane has pulled the third task.
C2_Witness ==
  /\ pc = "running"
  /\ maxConcurrency = 2
  /\ Len(suite.cases) = 3
  /\ Len(stored) = 1
  /\ inFlight = 2

\* C3 (runner isolation): a task that rejects leaves undefined in its own
\* slot, its lane claims the next index if one is left, and at completion
\* every other task has its own result in its own slot.
C3_Slots ==
  runnerCompleted =>
    /\ Len(results) = Len(suite.cases)
    /\ \A k \in 1..Len(suite.cases) :
         IF suite.cases[k] = Null THEN results[k] = Undefined
         ELSE /\ results[k] \notin {Undefined, Hole}
              /\ results[k].case_id = suite.cases[k].case_id

C3_LaneGoesOn ==
  \A lane \in 1..Len(lanes) :
    (/\ pc = "running"
     /\ lanes[lane].pc = "settled"
     /\ lanes[lane].settled.threw
     /\ lanes'[lane] # lanes[lane])
    => /\ pc' = "running"
       /\ results'[lanes[lane].currentIndex + 1] = Undefined
       /\ IF index < Len(suite.cases)
          THEN /\ lanes'[lane].pc # "done"
               /\ lanes'[lane].currentIndex = index
               /\ index' = index + 1
          ELSE lanes'[lane].pc = "done"

C3_RunnerIsolation == [](C3_Slots) /\ [][C3_LaneGoesOn]_vars

\* One lane only: the task that fails is the first and the same lane has
\* run the two others.
C3_Witness ==
  /\ runnerCompleted
  /\ maxConcurrency = 1
  /\ suite.cases = <<Null, CaseA, CaseB>>
  /\ results[1] = Undefined
  /\ results[2].case_id = "case-a"
  /\ results[3].case_id = "case-b"

\* The call of the classifier fails: fetch rejects, the status is not ok, the
\* body is not JSON, or the payload lacks a field the scoring reads.
callFails(response) ==
  \/ response.net = "rejects"
  \/ ~response.ok
  \/ ~Has(response, "json")
  \/ response.json = Null
  \/ ~Has(response.json, "global")
  \/ ~Has(response.json, "domains")

degraded(caseResult) ==
  /\ caseResult.actual.overall_severity = "none"
  /\ caseResult.actual.overall_imminence = "not_applicable"
  /\ caseResult.actual.confidence = Num(0, 1)
  /\ Len(caseResult.actual.domains) = 0
  /\ caseResult.passed = FALSE
  /\ caseResult.checks.overall_severity = FALSE
  /\ caseResult.checks.overall_imminence = FALSE
  /\ caseResult.checks.confidence = FALSE
  /\ caseResult.score = Num(0, 1)
  /\ Has(caseResult, "error")
  /\ caseResult.error # ""

\* The cases of the suite a report was written for.
casesOf(record) == fixtures[record.fixture].json.cases

\* C4 (classifier failure degradation): the CaseResult of a case whose call
\* failed has severity none, imminence not_applicable, confidence 0, no
\* domains, passed false, the three baseline checks false, score 0 and a
\* non-empty error, in the runner's result and in every report written.
C4_FailureDegradation ==
  /\ pc = "running" =>
       \A k \in 1..Len(results) :
         (/\ suite.cases[k] # Null
          /\ results[k] # Hole
          /\ callFails(responseTo(suite.cases[k])))
         => degraded(results[k])
  /\ \A w \in 1..Len(written) :
       \A k \in 1..Len(written[w].content.cases) :
         callFails(responseTo(casesOf(written[w])[k]))
         => degraded(written[w].content.cases[k])

\* A report whose three cases failed: two on a payload without domains, one
\* on a status that is not ok.
C4_Witness ==
  /\ pc = "returned"
  /\ suite.cases = <<CaseA, CaseB, CaseC>>
  /\ api[ConvA] = OkNoDomains /\ api[ConvB] = Http500
  /\ Len(static[outputPath(suite)].cases) = 3
  /\ \A k \in 1..3 : degraded(static[outputPath(suite)].cases[k])

\* Every entry of the cases of a suite file is a case record.
wellFormed(file) ==
  /\ Has(file, "json")
  /\ Has(file.json, "cases")
  /\ \A k \in 1..Len(file.json.cases) : file.json.cases[k] # Null

\* C5 (a failed call is never fatal): over a suite whose cases are all case
\* records, whatever the responses, the count loop does not throw, the only
\* fatal error is a file that cannot be written, and a report written has
\* one CaseResult per case, that of a case whose call succeeded being the
\* success result of that case and its own payload alone.
C5_FailedCallNotFatal ==
  /\ (Len(fixtures) = 1 /\ wellFormed(fixtures[1])) =>
       /\ runnerCompleted => ~countThrows(results)
       /\ (pc = "exited" /\ exitCode = 1) => error = "Error: EACCES: permission denied"
  /\ \A w \in 1..Len(written) :
       /\ Len(written[w].content.cases) = Len(casesOf(written[w]))
       /\ \A k \in 1..Len(casesOf(written[w])) :
            LET testCase == casesOf(written[w])[k]
            IN ~callFails(responseTo(testCase))
               => written[w].content.cases[k]
                    = successResult(testCase, responseTo(testCase).json)

\* A report written although the call of one of its three cases got a 500.
C5_Witness ==
  /\ pc = "returned"
  /\ suite.cases = <<CaseA, CaseB, CaseC>>
  /\ api[ConvA] = OkHigh /\ api[ConvB] = Http500
  /\ Len(written) = 1
  /\ written[1].content.cases[1].passed
  /\ Has(written[1].content.cases[2], "error")

wellFormedResult(caseResult) ==
  /\ {"case_id", "expected", "actual", "passed", "checks", "score"} \subseteq DOMAIN caseResult
  /\ caseResult.passed \in BOOLEAN
  /\ {"overall_severity", "overall_imminence", "confidence"} \subseteq DOMAIN caseResult.checks

\* C6 (tasks capture their own failure): the task of a case record never
\* rejects, whatever the endpoint answers: it settles with a CaseResult; and
\* the runner's result over a suite of case records has no undefined slot.
C6_TasksCaptureFailure ==
  /\ pc = "running" =>
       \A lane \in 1..Len(lanes) :
         (lanes[lane].pc = "settled" /\ suite.cases[lanes[lane].currentIndex + 1] # Null)
         => /\ ~lanes[lane].settled.threw
            /\ wellFormedResult(lanes[lane].settled.value)
  /\ (runnerCompleted /\ wellFormed(fixtures[current])) =>
       \A k \in 1..Len(results) : results[k] # Undefined /\ wellFormedResult(results[k])

\* The runner's result over three cases whose calls all failed, two of them
\* inside the try block (a payload without global).
C6_Witness ==
  /\ runnerCompleted
  /\ suite.cases = <<CaseA, CaseB, CaseC>>
  /\ api[ConvA] = OkNoGlobal /\ api[ConvB] = NetFail
  /\ \A k \in 1..3 : Has(results[k], "error")

\* The CaseResults of the state: the slots stored and the reports written.
caseResults ==
  {results[k] : k \in {j \in 1..Len(results) : results[j] \notin {Undefined, Hole}}}
    \cup UNION {{written[w].content.cases[k] : k \in 1..Len(written[w].content.cases)} :
                  w \in 1..Len(written)}

Below(x, y) == x.num * y.den < y.num * x.den

\* C7 (score/pass coupling): a CaseResult has score 100 exactly when it has
\* passed, and a score below 100 otherwise.
C7_ScorePassCoupling ==
  \A caseResult \in caseResults :
    /\ (caseResult.score = Num(100, 1)) <=> caseResult.passed
    /\ ~caseResult.passed => Below(caseResult.score, Num(100, 1))

\* Scores 100, 0 and 50 side by side: only the first has passed.
C7_Witness ==
  /\ runnerCompleted
  /\ suite.cases = <<CaseA, CaseC, CaseB>>
  /\ results[1].score = Num(100, 1) /\ results[1].passed
  /\ results[2].score = Num(0, 1) /\ ~results[2].passed /\ ~Has(results[2], "error")
  /\ results[3].score = Num(50, 1) /\ ~results[3].passed

\* C8 (report order): a report has as many cases as its suite and its i-th
\* CaseResult carries the case_id of the suite's i-th case.
C8_ReportOrder ==
  \A w \in 1..Len(written) :
    /\ Len(written[w].content.cases) = Len(casesOf(written[w]))
    /\ \A k \in 1..Len(casesOf(written[w])) :
         written[w].content.cases[k].case_id = casesOf(written[w])[k].case_id

\* A report over three cases whose results were stored last case first.
C8_Witness ==
  /\ pc = "returned"
  /\ Len(written) = 1
  /\ casesOf(written[1]) = <<CaseA, CaseB, CaseC>>
  /\ stored = <<2, 1, 0>>

RECURSIVE scoreTotal(_)
scoreTotal(cases) ==
  IF Len(cases) = 0 THEN Num(0, 1) ELSE Plus(cases[1].score, scoreTotal(Tail(cases)))

\* C9 (aggregate score law): the overall_score of a report with at least one
\* case is the mean of the scores of its cases: times their number, it is
\* their sum.
C9_AggregateScoreLaw ==
  \A w \in 1..Len(written) :
    LET report == written[w].content
    IN Len(report.cases) > 0
       => /\ report.overall_score # Null
          /\ Times(report.overall_score, Num(Len(report.cases), 1)) = scoreTotal(report.cases)

\* Scores 100, 0 and 50: the overall score is 50 and one case of three passed.
C9_Witness ==
  /\ Len(written) = 1
  /\ LET report == written[1].content
     IN /\ Len(report.cases) = 3
        /\ report.cases[1].score = Num(100, 1)
        /\ report.cases[2].score = Num(0, 1)
        /\ report.cases[3].score = Num(50, 1)
        /\ report.overall_score = Num(50, 1)
        /\ report.passed_cases = 1
        /\ report.total_cases = 3

withoutTimestamp(report) == [report EXCEPT !.generated_at = 0]

\* C10 (determinism of the artifact): two reports written for the same suite
\* file (the responses of the endpoint being the same) are equal in every
\* field but generated_at, whatever the two orders of completion.
C10_Determinism ==
  \A v, w \in 1..Len(written) :
    written[v].fixture = written[w].fixture
    => withoutTimestamp(written[v].content) = withoutTimestamp(written[w].content)

\* Two invocations over three cases, one of which fails: the results were
\* stored first case first, then last case first, and the two timestamps
\* differ.
C10_Witness ==
  /\ pc = "returned"
  /\ Len(written) = 2
  /\ casesOf(written[1]) = <<CaseA, CaseB, CaseC>>
  /\ api[ConvA] = OkHigh /\ api[ConvB] = NetFail
  /\ written[1].inOrder
  /\ stored = <<2, 1, 0>>
  /\ written[1].content.generated_at # written[2].content.generated_at

(***************************************************************************)
(* Batch mode and the loader                                               *)
(***************************************************************************)
writeFailed == error = "Error: EACCES: permission denied"

\* The reports the current invocation has written, by fixture.
writtenFor(fixture) ==
  {w \in 1..Len(written) : written[w].run = run /\ written[w].fixture = fixture}

\* The properties the interfaces TestSuite and TestCase require (lines 42-73).
requiredOfSuite == {"test_set_id", "version", "description", "cases"}
requiredOfCase == {"case_id", "description", "conversation", "expected_overall_severity",
                   "expected_overall_imminence", "expected_min_confidence"}

malformedCase(testCase) ==
  \/ testCase = Null
  \/ ~(requiredOfCase \subseteq DOMAIN testCase)
  \/ ~Has(testCase.expected_min_confidence, "num")

\* A suite source the loader is to reject: it is not a suite document, a
\* required field is missing, the case list is empty, or a confidence
\* threshold is not a number.
malformed(file) ==
  \/ ~Has(file, "json")
  \/ ~(requiredOfSuite \subseteq DOMAIN file.json)
  \/ Len(file.json.cases) = 0
  \/ \E k \in 1..Len(file.json.cases) : malformedCase(file.json.cases[k])

\* C11 (batch isolation): when an invocation with --all has ended without a
\* write failure, every suite file of the directory that is a valid suite
\* has had its report written by that invocation, whatever happened to the
\* other files of the directory.
C11_BatchIsolation ==
  (args.all /\ pc = "exited" /\ ~writeFailed) =>
    \A k \in 1..Len(fixtures) : ~malformed(fixtures[k]) => writtenFor(k) # {}

\* C12 (the loader validates): generateStaticResults never has a call of the
\* classifier in flight for a malformed suite source, and no report is ever
\* written for one.
C12_LoaderValidates ==
  /\ pc = "running" =>
       (malformed(fixtures[current]) => inFlight = 0)
  /\ \A w \in 1..Len(written) : ~malformed(fixtures[written[w].fixture])

(***************************************************************************)
(* Scoring                                                                 *)
(***************************************************************************)
\* The scorings of the state: a case of the suite, the payload its call
\* returned and the CaseResult stored for it (success path only).
scorings ==
  {[testCase |-> suite.cases[k],
    payload |-> responseTo(suite.cases[k]).json,
    result |-> results[k]] :
     k \in {j \in 1..Len(results) :
              /\ results[j] \notin {Undefined, Hole}
              /\ ~callFails(responseTo(suite.cases[j]))}}

\* The acceptable set of a case: the list supplied, else the baseline alone.
acceptableSet(testCase, list, baseline) ==
  IF Has(testCase, list) THEN {testCase[list][k] : k \in 1..Len(testCase[list])}
  ELSE {testCase[baseline]}

\* C13 (set membership): the overall severity check (resp. imminence) of a
\* CaseResult is true exactly when the actual overall value is a member of
\* the case's acceptable set: the supplied list when there is one, the
\* baseline value alone otherwise.
C13_SetMembership ==
  \A s \in scorings :
    /\ s.result.checks.overall_severity
         = (s.payload.global.overall_severity
              \in acceptableSet(s.testCase, "acceptable_severities", "expected_overall_severity"))
    /\ s.result.checks.overall_imminence
         = (s.payload.global.overall_imminence
              \in acceptableSet(s.testCase, "acceptable_imminence", "expected_overall_imminence"))

\* Baseline moderate widened to {moderate, high}: high passes; the imminence
\* emergency is outside {subacute, urgent} and fails.
C13_Witness ==
  \E s \in scorings :
    /\ s.testCase.expected_overall_severity = "moderate"
    /\ Has(s.testCase, "acceptable_severities")
    /\ s.testCase.acceptable_severities = <<"moderate", "high">>
    /\ s.payload.global.overall_severity = "high"
    /\ s.result.checks.overall_severity
    /\ Has(s.testCase, "acceptable_imminence")
    /\ s.testCase.acceptable_imminence = <<"subacute", "urgent">>
    /\ s.payload.global.overall_imminence = "emergency"
    /\ ~s.result.checks.overall_imminence

\* An acceptable list, when supplied, is a non-empty set of alternatives.
listSuppliedIsNonEmpty(testCase, list) ==
  Has(testCase, list) => Len(testCase[list]) > 0

\* C14 (the list only widens): an actual overall severity (resp. imminence)
\* equal to the baseline expected value passes the check, with or without a
\* (non-empty) acceptable list.
C14_BaselineAlwaysPasses ==
  \A s \in scorings :
    /\ (/\ listSuppliedIsNonEmpty(s.testCase, "acceptable_severities")
        /\ s.payload.global.overall_severity = s.testCase.expected_overall_severity)
         => s.result.checks.overall_severity
    /\ (/\ listSuppliedIsNonEmpty(s.testCase, "acceptable_imminence")
        /\ s.payload.global.overall_imminence = s.testCase.expected_overall_imminence)
         => s.result.checks.overall_imminence

\* The position of a severity on the scale none < mild < moderate < high < critical.
position(severity) ==
  CHOOSE k \in 1..5 : <<"none", "mild", "moderate", "high", "critical">>[k] = severity

\* The actual domains of a payload that carry a tag.
matching(payload, tag) ==
  {j \in 1..Len(payload.domains) : payload.domains[j].domain = tag}
firstMatching(payload, tag) ==
  payload.domains[CHOOSE j \in matching(payload, tag) :
                    \A other \in matching(payload, tag) : j <= other]

\* The expected domains of a case.
expectedDomains(testCase) ==
  IF Has(testCase, "expected_domains")
  THEN {testCase.expected_domains[k] : k \in 1..Len(testCase.expected_domains)}
  ELSE {}

\* C15 (ordered threshold): for an expected domain that declares min_severity
\* and has a matching actual domain, the check <domain>_severity is reported
\* and is true exactly when the actual domain severity is at or above
\* min_severity on the scale.
C15_OrderedThreshold ==
  \A s \in scorings :
    \A e \in expectedDomains(s.testCase) :
      (Has(e, "min_severity") /\ matching(s.payload, e.domain) # {})
      => /\ Has(s.result.checks, "domains")
         /\ Has(s.result.checks.domains, e.domain \o "_severity")
         /\ s.result.checks.domains[e.domain \o "_severity"]
              = (position(firstMatching(s.payload, e.domain).severity)
                   >= position(e.min_severity))

\* Minimum high and an actual domain at critical: the check passes.
C15_Witness ==
  \E s \in scorings :
    /\ Has(s.testCase, "expected_domains")
    /\ s.testCase.expected_domains = <<[domain |-> "others", min_severity |-> "high"]>>
    /\ matching(s.payload, "others") # {}
    /\ firstMatching(s.payload, "others").severity = "critical"
    /\ Has(s.result.checks, "domains")
    /\ s.result.checks.domains = [others_severity |-> TRUE]

\* The nested field a declared flag is compared by.
flagField(flag) == IF flag \in {"mash_rating", "dash_rating"} THEN "level" ELSE "present"

\* payload.legal_flags?.<flag>?.<field> === expected
flagEquals(payload, flag, expected) ==
  /\ Has(payload, "legal_flags")
  /\ Has(payload.legal_flags, flag)
  /\ Has(payload.legal_flags[flag], flagField(flag))
  /\ payload.legal_flags[flag][flagField(flag)] = expected

\* The checks a CaseResult reports: the three baseline checks, the domain
\* checks and the legal-flag checks, as (group, name) pairs.
evaluated(caseResult) ==
  {<<"baseline", name>> : name \in {"overall_severity", "overall_imminence", "confidence"}}
    \cup (IF Has(caseResult.checks, "domains")
          THEN {<<"domains", name>> : name \in DOMAIN caseResult.checks.domains}
          ELSE {})
    \cup (IF Has(caseResult.checks, "legal_flags")
          THEN {<<"legal_flags", name>> : name \in DOMAIN caseResult.checks.legal_flags}
          ELSE {})
holds(caseResult, check) ==
  IF check[1] = "baseline" THEN caseResult.checks[check[2]]
  ELSE caseResult.checks[check[1]][check[2]]
trueChecks(caseResult) == {check \in evaluated(caseResult) : holds(caseResult, check)}

\* C16 (every declared flag is checked): for each flag a case declares in
\* expected_legal_flags, the CaseResult reports a check of that name, equal
\* to the strict comparison of the declared value with the payload's
\* .present (.level for the ratings), and a false one fails the case.
C16_EveryDeclaredFlagChecked ==
  \A s \in scorings :
    Has(s.testCase, "expected_legal_flags") =>
      \A flag \in DOMAIN s.testCase.expected_legal_flags :
        /\ <<"legal_flags", flag>> \in evaluated(s.result)
        /\ holds(s.result, <<"legal_flags", flag>>)
             = flagEquals(s.payload, flag, s.testCase.expected_legal_flags[flag])
        /\ ~holds(s.result, <<"legal_flags", flag>>) => ~s.result.passed

\* C17 (scoring and pass gate): on the success path the score is 100 times
\* the true checks over the checks evaluated (baseline, domain and legal-flag
\* checks together), passed is the conjunction of those same checks, and the
\* three baseline checks are always among them.
C17_ScoringAndPassGate ==
  \A s \in scorings :
    /\ Cardinality(evaluated(s.result)) >= 3
    /\ s.result.score
         = Num(100 * Cardinality(trueChecks(s.result)), Cardinality(evaluated(s.result)))
    /\ s.result.passed = (trueChecks(s.result) = evaluated(s.result))

\* The spec's scenario: baseline high, no list, threshold 0.6; the classifier
\* says high with confidence 0.4: 2 of 3 checks, score 200/3, not passed.
C17_Witness ==
  \E s \in scorings :
    /\ s.testCase.expected_overall_severity = "high"
    /\ ~Has(s.testCase, "acceptable_severities")
    /\ s.testCase.expected_min_confidence = Num(6, 10)
    /\ s.payload.global.overall_severity = "high"
    /\ s.payload.confidence = Num(4, 10)
    /\ s.result.checks = [overall_severity |-> TRUE, overall_imminence |-> TRUE,
                           confidence |-> FALSE]
    /\ s.result.score = Num(200, 3)
    /\ ~s.result.passed

(***************************************************************************)
(* Fatal errors in single-suite mode                                       *)
(***************************************************************************)
\* The suite file cannot be loaded: it is not JSON, or it has no case list.
cannotLoad(file) == ~Has(file, "json") \/ ~Has(file.json, "cases")

C18_Exits ==
  (~args.all /\ pc = "exited") =>
    /\ Len(fixtures) = 0 =>
         /\ exitCode # 0
         /\ lanes = <<>> /\ results = <<>>
         /\ static = <<>> /\ written = <<>>
    /\ (Len(fixtures) = 1 /\ cannotLoad(fixtures[1])) =>
         /\ exitCode # 0
         /\ written = <<>>
    /\ writeFailed => exitCode # 0

\* A step in which the report was built (the clock was read at line 376) and
\* its file was not written: writeFileSync threw.
C18_WriteFails ==
  (~args.all /\ now' # now /\ written' = written)
  => (pc' = "exited" /\ exitCode' # 0 /\ static' = static)

\* C18 (fatal errors end the process with failure): in single-suite mode a
\* missing suite file, a suite file that cannot be loaded and a write that
\* fails each end the process with a non-zero status; for a missing file no
\* call was made and nothing was written.
C18_FatalErrorsExit == [](C18_Exits) /\ [][C18_WriteFails]_vars

\* The calls of three cases succeeded and the write failed: exit status 1,
\* nothing written.
C18_Witness ==
  /\ ~args.all
  /\ pc = "exited"
  /\ writeFailed
  /\ exitCode = 1
  /\ Len(results) = 3
  /\ ~countThrows(results)
  /\ written = <<>>

(***************************************************************************)
(* The cursor of runWithConcurrency                                        *)
(***************************************************************************)
\* The indices the lanes hold: claimed, and not stored yet.
held == {lane \in 1..Len(lanes) : lanes[lane].pc # "done"}

\* How many times an index has been claimed in the current run: a claim is
\* held by a lane until the lane stores its slot.
timesClaimed(i) ==
  Cardinality({k \in 1..Len(stored) : stored[k] = i})
    + Cardinality({lane \in held : lanes[lane].currentIndex = i})

C19_ClaimedOnce ==
  pc = "running" =>
    /\ index \in 0..Len(suite.cases)
    /\ \A i \in 0..(Len(suite.cases) - 1) :
         timesClaimed(i) = (IF i < index THEN 1 ELSE 0)
    /\ runnerCompleted => index = Len(suite.cases)

C19_CursorGrows ==
  (pc = "running" /\ pc' = "running") => index' \in {index, index + 1}

\* C19 (exclusive claiming): within a run the cursor never decreases, every
\* index below the cursor has been claimed exactly once and no other index
\* has been claimed, and at completion the cursor is N: each task has been
\* invoked exactly once.
C19_ExclusiveClaiming == [](C19_ClaimedOnce) /\ [][C19_CursorGrows]_vars

\* Two lanes and three tasks: the lane that held index 1 finished first and
\* claimed index 2 while index 0 was still held.
C19_Witness ==
  /\ pc = "running"
  /\ maxConcurrency = 2
  /\ Len(suite.cases) = 3
  /\ stored = <<1>>
  /\ index = 3
  /\ {lanes[lane].currentIndex : lane \in held} = {0, 2}

\* The indices no lane has claimed yet, and those claimed.
unclaimed == {i \in 0..(Len(suite.cases) - 1) : timesClaimed(i) = 0}
claimed == {i \in 0..(Len(suite.cases) - 1) : timesClaimed(i) > 0}

C20_TerminatedWhenExhausted ==
  pc = "running" =>
    /\ \A lane \in 1..Len(lanes) :
         lanes[lane].pc = "done" => (index = Len(suite.cases) /\ unclaimed = {})
    /\ stored = <<>> =>
         \A lane \in held : lanes[lane].currentIndex = lane - 1

\* A lane resumes from its task: it takes the lowest unclaimed index, which
\* is above every index claimed before, or it ends when none is left.
C20_Pulls ==
  \A lane \in 1..Len(lanes) :
    (pc = "running" /\ lanes[lane].pc = "settled" /\ lanes'[lane] # lanes[lane])
    => IF unclaimed # {}
       THEN /\ lanes'[lane].pc # "done"
            /\ lanes'[lane].currentIndex \in unclaimed
            /\ \A i \in unclaimed : lanes'[lane].currentIndex <= i
            /\ \A i \in claimed : i < lanes'[lane].currentIndex
       ELSE lanes'[lane].pc = "done"

\* C20 (pull-based scheduling): a lane that finishes its task claims, in the
\* same step, the lowest unclaimed index if there is one; a lane has ended
\* only when the cursor is at N; tasks are started in increasing index order.
C20_PullBasedScheduling == [](C20_TerminatedWhenExhausted) /\ [][C20_Pulls]_vars

\* A single lane that has pulled its third task after storing the first two.
C20_Witness ==
  /\ pc = "running"
  /\ maxConcurrency = 1
  /\ Len(suite.cases) = 3
  /\ stored = <<0, 1>>
  /\ Len(lanes) = 1
  /\ lanes[1].pc # "done"
  /\ lanes[1].currentIndex = 2

(***************************************************************************)
(* Termination of a run                                                    *)
(***************************************************************************)
\* The only steps that end a run are those of lines 361-405, after the join.
C21_NoAbort == (pc = "running" /\ pc' # "running") => runnerCompleted

\* At the join every task has been started and has stored its slot.
C21_AllStarted ==
  runnerCompleted => (index = Len(suite.cases) /\ Len(stored) = Len(suite.cases))

\* C21 (termination of a run): every call of the classifier settling, a run
\* once launched reaches the join of its lanes with every task started and
\* stored, no step ends it before the join, and it goes on to the write of
\* its artifact: over a suite of case records the report is written, unless
\* the write itself fails.
C21_Termination ==
  /\ [](C21_AllStarted)
  /\ [][C21_NoAbort]_vars
  /\ (pc = "running") ~> runnerCompleted
  /\ (pc = "running" /\ wellFormed(fixtures[current]))
       ~> (pc = "returned" \/ (pc = "exited" /\ writeFailed))

\* A run of three tasks over two lanes that has written its report.
C21_Witness ==
  /\ pc = "returned"
  /\ maxConcurrency = 2
  /\ Len(suite.cases) = 3
  /\ Len(stored) = 3
  /\ writtenFor(current) # {}

(***************************************************************************)
(* The write of the artifact                                               *)
(***************************************************************************)
\* The reports a launch of generateStaticResults has written.
writesOf(invocation, fixture) ==
  {w \in 1..Len(written) : written[w].run = invocation /\ written[w].fixture = fixture}

C22_OncePerRun ==
  /\ \A w \in 1..Len(written) :
       /\ Cardinality(writesOf(written[w].run, written[w].fixture)) = 1
       /\ written[w].path = fixtures[written[w].fixture].json.test_set_id \o ".json"
       /\ Has(static, written[w].path)
  /\ pc = "returned" => Cardinality(writesOf(run, current)) = 1
  /\ pc = "running" => writesOf(run, current) = {}
  \* the file holds the last report written to its path
  /\ \A path \in DOMAIN static :
       \E w \in 1..Len(written) :
         /\ written[w].path = path
         /\ static[path] = written[w].content
         /\ \A later \in (w + 1)..Len(written) : written[later].path # path

\* A step that changes static/suites: all the tasks have settled and are
\* stored, and one file receives the whole report, summary included.
C22_WholeReportAfterJoin ==
  (static' # static \/ written' # written) =>
    /\ runnerCompleted
    /\ Len(stored) = Len(suite.cases)
    /\ Len(written') = Len(written) + 1
    /\ LET report == written'[Len(written')].content
           path == suite.test_set_id \o ".json"
       IN /\ written'[Len(written')].path = path
          /\ static' = (path :> report) @@ static
          /\ report.suite_id = suite.test_set_id
          /\ report.total_cases = Len(suite.cases)
          /\ Len(report.cases) = Len(suite.cases)
          /\ {"passed_cases", "failed_cases", "overall_score", "generated_at"}
               \subseteq DOMAIN report

\* C22 (artifact write ordering): a run writes once, in one step taken after
\* all its tasks have settled, the whole report with its summary, to the
\* file named by the suite identifier, where it replaces what an earlier run
\* of the same suite had written.
C22_WriteOrdering == [](C22_OncePerRun) /\ [][C22_WholeReportAfterJoin]_vars

\* Two suites with the same identifier in one directory: the second report
\* has replaced the first.
C22_Witness ==
  /\ args.all
  /\ pc = "returned"
  /\ fixtures = <<FileCore, FileCore>>
  /\ Len(written) = 2
  /\ written[1].path = written[2].path
  /\ static[written[2].path] = written[2].content
  /\ written[1].content # written[2].content

(***************************************************************************)
(* Domain confidence                                                       *)
(***************************************************************************)
\* C23 (domain confidence check): for every expected domain that declares a
\* min_confidence (0 included) and has a matching actual domain, the check
\* <domain>_confidence is among the checks evaluated and is true exactly
\* when the actual domain confidence is at least that threshold.
C23_DomainConfidence ==
  \A s \in scorings :
    \A e \in expectedDomains(s.testCase) :
      (Has(e, "min_confidence") /\ matching(s.payload, e.domain) # {})
      => /\ <<"domains", e.domain \o "_confidence">> \in evaluated(s.result)
         /\ holds(s.result, <<"domains", e.domain \o "_confidence">>)
              = Geq(firstMatching(s.payload, e.domain).confidence, e.min_confidence)

(***************************************************************************)
(* The counts of a report                                                  *)
(***************************************************************************)
\* C24 (count consistency): in every report written, total_cases is the
\* number of cases of the suite and of CaseResults of the report,
\* passed_cases is the number of CaseResults that passed, failed_cases the
\* number of those that did not, and the two add up to total_cases.
C24_CountConsistency ==
  \A w \in 1..Len(written) :
    LET report == written[w].content
        passing == {k \in 1..Len(report.cases) : report.cases[k].passed = TRUE}
        failing == {k \in 1..Len(report.cases) : report.cases[k].passed = FALSE}
    IN /\ report.total_cases = Len(casesOf(written[w]))
       /\ report.total_cases = Len(report.cases)
       /\ report.passed_cases = Cardinality(passing)
       /\ report.failed_cases = Cardinality(failing)
       /\ report.passed_cases + report.failed_cases = report.total_cases

\* Three cases: one call succeeded and passed, one succeeded and did not
\* pass, one failed.
C24_Witness ==
  /\ Len(written) = 1
  /\ casesOf(written[1]) = <<CaseA, CaseB, CaseC>>
  /\ api[ConvA] = OkHigh /\ api[ConvB] = Http500
  /\ written[1].content.passed_cases = 1
  /\ written[1].content.failed_cases = 2
  /\ written[1].content.cases[1].passed
  /\ Has(written[1].content.cases[2], "error")
  /\ ~Has(written[1].content.cases[3], "error")

(***************************************************************************)
(* --all: one suite at a time                                              *)
(***************************************************************************)
C25_EarlierSuitesWritten ==
  (args.all /\ pc = "running") =>
    /\ \A k \in 1..(current - 1) : writesOf(run, k) # {}
    /\ inFlight <= HarnessConcurrency
    /\ inFlight <= Len(suite.cases)

\* A step that launches the next suite of the directory: the suite before
\* it has returned, its report is written and none of its calls is in flight.
C25_NextSuiteAfterWrite ==
  (args.all /\ current' # current /\ current # 0 /\ run' = run) =>
    /\ current' = current + 1
    /\ pc = "returned"
    /\ inFlight = 0
    /\ writesOf(run, current) # {}
    /\ Has(static, outputPath(suite))

\* C25 (batch mode runs one suite at a time): with --all a suite is launched
\* only after the suite before it has written its report, so the calls in
\* flight are those of one suite and never more than 10.
C25_OneSuiteAtATime == [](C25_EarlierSuitesWritten) /\ [][C25_NextSuiteAfterWrite]_vars

\* The second suite of the directory has its two calls in flight; the report
\* of the first is written.
C25_Witness ==
  /\ args.all
  /\ pc = "running"
  /\ fixtures = <<FileEdge, FileCore>>
  /\ current = 2
  /\ inFlight = 2
  /\ Has(static, "edge-cases.json")
  /\ ~Has(static, "core-transparency.json")

====
